---------------------------- MODULE Spec2Model ----------------------------
(***************************************************************************)
(* A model of the acornbencode codec: the nom-based recursive-descent      *)
(* parser (integer.rs, byte_string.rs, list.rs, dictionary.rs, common.rs,  *)
(* parser.rs) and the encoder (encoder.rs).                                *)
(*                                                                         *)
(* Bytes are naturals 0..255.  A byte buffer is a sequence of bytes.       *)
(* A BencodeValue is a record of one uniform shape                         *)
(*   [kind, int, bytes, items, pairs]                                      *)
(* of which only the field of its variant is significant.  A BTreeMap is   *)
(* the sequence of its [key, val] entries in iteration order, i.e. in      *)
(* ascending key order (Ord for &[u8] is byte-lexicographic).              *)
(*                                                                         *)
(* isize and usize are IntBits wide.  The arithmetic of the parser is      *)
(* checked arithmetic (str::parse), so the width only fixes where the      *)
(* overflow failure starts; it is scaled down because the model checker's  *)
(* integers are 32 bits wide.                                              *)
(***************************************************************************)
EXTENDS Integers, Sequences, FiniteSets, TLC

VARIABLES input, value, parsed, encoded, reparsed, reencoded,
          extra, extended, cut, truncated, hostenc, pc,
          ptr, host, hostres, text

vars == <<input, value, parsed, encoded, reparsed, reencoded,
          extra, extended, cut, truncated, hostenc, pc,
          ptr, host, hostres, text>>

\* the variables of the host-native conversions and of the text rendering
hostvars == <<ptr, host, hostres, text>>

---------------------------------------------------------------------------
(* Bounds *)

\* width of isize / usize in bits
IntBits == 4
\* longest input buffer of the byte-level specification
MaxLen == 4
\* most tokens concatenated into an input of the token-level specification
MaxTokens == 6
\* most nodes of a value tree built directly
MaxNodes == 4
\* longest byte string of a value built directly
MaxStr == 2
\* longest trailing data appended to a complete encoding
MaxExtra == 1
\* longest byte string of a value rendered as text
MaxText == 3
\* most digits of an integer literal
MaxDigits == 2

---------------------------------------------------------------------------
(* Bytes *)

CH_i == 105
CH_e == 101
CH_l == 108
CH_d == 100
CH_colon == 58
CH_minus == 45
CH_0 == 48
CH_9 == 57
CH_1 == 49
CH_2 == 50
CH_a == 97
CH_b == 98
NUL == 0
XFF == 255

RECURSIVE Pow2(_)
Pow2(n) == IF n = 0 THEN 1 ELSE 2 * Pow2(n - 1)

ISIZE_MAX == Pow2(IntBits - 1) - 1
ISIZE_MIN == 0 - Pow2(IntBits - 1)
USIZE_MAX == Pow2(IntBits) - 1

Drop(s, n) == SubSeq(s, n + 1, Len(s))
Take(s, n) == SubSeq(s, 1, n)

---------------------------------------------------------------------------
(* The value model: common.rs *)

Integer(n) ==
    [kind |-> "Integer", int |-> n, bytes |-> <<>>, items |-> <<>>, pairs |-> <<>>]
ByteString(b) ==
    [kind |-> "ByteString", int |-> 0, bytes |-> b, items |-> <<>>, pairs |-> <<>>]
List(xs) ==
    [kind |-> "List", int |-> 0, bytes |-> <<>>, items |-> xs, pairs |-> <<>>]
Dictionary(m) ==
    [kind |-> "Dictionary", int |-> 0, bytes |-> <<>>, items |-> <<>>, pairs |-> m]

\* the absence of a value (an Err, or nothing computed yet)
NoValue ==
    [kind |-> "None", int |-> 0, bytes |-> <<>>, items |-> <<>>, pairs |-> <<>>]

\* Ord for [u8]: lexicographic comparison of the raw bytes
RECURSIVE LexLess(_, _)
LexLess(a, b) ==
    IF b = <<>> THEN FALSE
    ELSE IF a = <<>> THEN TRUE
    ELSE IF a[1] # b[1] THEN a[1] < b[1]
    ELSE LexLess(Tail(a), Tail(b))

\* Mutant: a map that keeps insertion order (a replaced key keeps its place,
\* a new key goes last)
RECURSIVE BTreeInsert_InsertionOrder(_, _, _)
BTreeInsert_InsertionOrder(m, k, v) ==
    IF m = <<>> THEN << [key |-> k, val |-> v] >>
    ELSE IF m[1].key = k THEN << [key |-> k, val |-> v] >> \o Tail(m)
    ELSE << m[1] >> \o BTreeInsert_InsertionOrder(Tail(m), k, v)

\* BTreeMap::insert: replace the value of an equal key, else insert in key order
RECURSIVE BTreeInsert(_, _, _)
BTreeInsert(m, k, v) ==
    IF m = <<>> THEN << [key |-> k, val |-> v] >>
    ELSE IF m[1].key = k THEN << [key |-> k, val |-> v] >> \o Tail(m)
    ELSE IF LexLess(k, m[1].key) THEN << [key |-> k, val |-> v] >> \o m
    ELSE << m[1] >> \o BTreeInsert(Tail(m), k, v)

\* Mutant: a pair whose key the map already holds is dropped
RECURSIVE CollectInto_FirstWins(_, _)
CollectInto_FirstWins(m, ps) ==
    IF ps = <<>> THEN m
    ELSE IF \E j \in 1..Len(m) : m[j].key = ps[1].key
         THEN CollectInto_FirstWins(m, Tail(ps))
    ELSE CollectInto_FirstWins(BTreeInsert(m, ps[1].key, ps[1].val), Tail(ps))

\* FromIterator for BTreeMap: the pairs are inserted in iteration order
RECURSIVE CollectInto(_, _)
CollectInto(m, ps) ==
    IF ps = <<>> THEN m
    ELSE CollectInto(BTreeInsert(m, ps[1].key, ps[1].val), Tail(ps))

\* Mutant: the pairs are kept as they came off the wire
Collect_WireOrder(ps) == ps

Collect(ps) == CollectInto(<<>>, ps)

---------------------------------------------------------------------------
(* Results of the nom parsers: Ok((rest, out)) or Err *)

Ok(out, rest) == [ok |-> TRUE, out |-> out, rest |-> rest]
\* Err of a parser whose output is a byte sequence or a sequence of values
ErrSeq == [ok |-> FALSE, out |-> <<>>, rest |-> <<>>]
\* Err of a parser whose output is a number
ErrNum == [ok |-> FALSE, out |-> 0, rest |-> <<>>]
\* Err of a parser whose output is a BencodeValue
ErrVal == [ok |-> FALSE, out |-> NoValue, rest |-> <<>>]
\* Err of dict_pair
ErrPair == [ok |-> FALSE, out |-> [key |-> <<>>, val |-> NoValue], rest |-> <<>>]

\* nom::character::is_digit
IsDigit(b) == b >= CH_0 /\ b <= CH_9

\* nom character::complete::char
char(c, in) ==
    IF in # <<>> /\ in[1] = c THEN Ok(c, Tail(in)) ELSE ErrNum

\* nom character::complete::digit1: the longest non-empty prefix of digits
digit1(in) ==
    LET n == CHOOSE k \in 0..Len(in) :
                 /\ \A j \in 1..k : IsDigit(in[j])
                 /\ (k < Len(in) => ~IsDigit(in[k + 1]))
    IN  IF n = 0 THEN ErrSeq ELSE Ok(Take(in, n), Drop(in, n))

\* Mutant: takes what is there when fewer than n bytes remain
take_Lenient(n, in) ==
    IF Len(in) < n THEN Ok(in, <<>>) ELSE Ok(Take(in, n), Drop(in, n))

\* nom bytes::complete::take
take(n, in) ==
    IF Len(in) < n THEN ErrSeq ELSE Ok(Take(in, n), Drop(in, n))

\* str::parse::<isize> / str::parse::<usize> on a string of digits:
\* checked accumulation, an overflow of the target type is an Err
RECURSIVE ParseChecked(_, _, _)
ParseChecked(digits, acc, max) ==
    IF digits = <<>> THEN [ok |-> TRUE, out |-> acc]
    ELSE LET next == acc * 10 + (digits[1] - CH_0)
         IN  IF next > max THEN [ok |-> FALSE, out |-> 0]
             ELSE ParseChecked(Tail(digits), next, max)

\* Mutant: a number too large for isize becomes the largest isize
parse_isize_Saturating(digits) ==
    IF ParseChecked(digits, 0, ISIZE_MAX).ok THEN ParseChecked(digits, 0, ISIZE_MAX)
    ELSE [ok |-> TRUE, out |-> ISIZE_MAX]

parse_isize(digits) == ParseChecked(digits, 0, ISIZE_MAX)
parse_usize(digits) == ParseChecked(digits, 0, USIZE_MAX)

---------------------------------------------------------------------------
(* Combinators of nom, as the grammars use them.  A parser's result is passed
   on as an argument, so that each grammar reads as the pipeline its source
   composes. *)

\* the Err of a parser is an Err of the parser built on it; on Ok the output
\* r of a conversion is returned with the remainder rest
WithRest(r, rest) == IF r.ok THEN Ok(r.out, rest) ELSE ErrNum

\* Mutant: a body that is not followed by 'e' is returned as it is
DelimitedClose_Partial(body, err) ==
    IF body.ok
    THEN Ok(body.out, IF char(CH_e, body.rest).ok THEN Tail(body.rest) ELSE body.rest)
    ELSE err

\* the tail of delimited(open, body, char('e')): body succeeded and an 'e'
\* follows it
DelimitedClose(body, err) ==
    IF body.ok /\ char(CH_e, body.rest).ok THEN Ok(body.out, Tail(body.rest))
    ELSE err

\* alt((a, b)): the first alternative that succeeds decides
alt(a, b) == IF a.ok THEN a ELSE b

---------------------------------------------------------------------------
(* integer.rs *)

\* match digits_str.parse::<isize>() { Ok(x) => match sign { Some(_) => -x, .. } }
ApplySign(sign, x) ==
    IF x.ok THEN [ok |-> TRUE, out |-> IF sign THEN 0 - x.out ELSE x.out]
    ELSE [ok |-> FALSE, out |-> 0]

\* Mutant: no check for negative zero
from_integer_digits_NoNegativeZeroCheck(sign, digits) ==
    IF Len(digits) > 1 /\ digits[1] = CH_0 THEN [ok |-> FALSE, out |-> 0]
    ELSE ApplySign(sign, parse_isize(digits))

\* from_integer_digits((sign, digits)): sign is TRUE for Some('-').
\* digits comes from digit1, so str::from_utf8(digits) cannot fail.
from_integer_digits(sign, digits) ==
    IF Len(digits) > 1 /\ digits[1] = CH_0 THEN [ok |-> FALSE, out |-> 0]
    ELSE IF sign /\ digits = << CH_0 >> THEN [ok |-> FALSE, out |-> 0]
    ELSE ApplySign(sign, parse_isize(digits))

\* opt(char('-')): whether a sign is there
OptSign(in) == char(CH_minus, in).ok

\* map_res(tuple((sign, digits)), from_integer_digits), d the result of digit1
MapResInteger(sign, d) ==
    IF d.ok THEN WithRest(from_integer_digits(sign, d.out), d.rest) ELSE ErrNum

integer_digits(in) ==
    MapResInteger(OptSign(in), digit1(IF OptSign(in) THEN Tail(in) ELSE in))

\* delimited(char('i'), integer_digits, char('e'))
integer(in) ==
    IF char(CH_i, in).ok THEN DelimitedClose(integer_digits(Tail(in)), ErrNum)
    ELSE ErrNum

---------------------------------------------------------------------------
(* byte_string.rs *)

\* Mutant: no check for leading zeros in the length
length_of_digits_NoLeadingZeroCheck(digits) == parse_usize(digits)

\* the closure of parse_length: the digits of the length to a usize
length_of_digits(digits) ==
    IF Len(digits) > 1 /\ digits[1] = CH_0 THEN [ok |-> FALSE, out |-> 0]
    ELSE parse_usize(digits)

\* map_res(terminated(digit1, char(':')), closure), d the result of digit1
MapResLength(d) ==
    IF d.ok /\ char(CH_colon, d.rest).ok
    THEN WithRest(length_of_digits(d.out), Tail(d.rest))
    ELSE ErrNum

parse_length(in) == MapResLength(digit1(in))

\* take(length)(remaining), l the result of parse_length
TakeLength(l) == IF l.ok THEN take(l.out, l.rest) ELSE ErrSeq

\* Mutant: the bytes taken must be text (no byte above 127)
TextOnly(t) ==
    IF t.ok /\ \E j \in 1..Len(t.out) : t.out[j] > 127 THEN ErrSeq ELSE t
byte_string_TextOnly(in) == TextOnly(TakeLength(parse_length(in)))

byte_string(in) == TakeLength(parse_length(in))

---------------------------------------------------------------------------
(* common.rs, list.rs, dictionary.rs: the mutually recursive grammars *)

RECURSIVE bencode_value(_)
RECURSIVE many0_bencode_value(_, _)
RECURSIVE many0_dict_pair(_, _)

\* Mutant: an element is put before the elements collected so far
Many0ValueStep_Prepend(in, acc, r) ==
    IF ~r.ok THEN Ok(acc, in)
    ELSE IF Len(r.rest) = Len(in) THEN ErrSeq
    ELSE many0_bencode_value(r.rest, << r.out >> \o acc)

\* One round of nom multi::many0, r the result of the element parser on in
\* and acc the vector collected so far: many0 stops with Ok at the first Err
\* of the element parser, and fails when the element parser succeeds without
\* consuming input.
Many0ValueStep(in, acc, r) ==
    IF ~r.ok THEN Ok(acc, in)
    ELSE IF Len(r.rest) = Len(in) THEN ErrSeq
    ELSE many0_bencode_value(r.rest, Append(acc, r.out))

\* many0(bencode_value)
many0_bencode_value(in, acc) == Many0ValueStep(in, acc, bencode_value(in))

\* Mutant: a list may also open with 'd'
list_OpensWithD(in) ==
    IF char(CH_l, in).ok \/ char(CH_d, in).ok
    THEN DelimitedClose(many0_bencode_value(Tail(in), <<>>), ErrSeq)
    ELSE ErrSeq

\* delimited(char('l'), many0(bencode_value), char('e'))
list(in) ==
    IF char(CH_l, in).ok
    THEN DelimitedClose(many0_bencode_value(Tail(in), <<>>), ErrSeq)
    ELSE ErrSeq

\* the pair of a key and the result v of bencode_value after it
MakePair(key, v) ==
    IF v.ok THEN Ok([key |-> key, val |-> v.out], v.rest) ELSE ErrPair

\* the second parser of the tuple, k the result of byte_string
PairValue(k) == IF k.ok THEN MakePair(k.out, bencode_value(k.rest)) ELSE ErrPair

\* tuple((byte_string, bencode_value))
dict_pair(in) == PairValue(byte_string(in))

Many0PairStep(in, acc, r) ==
    IF ~r.ok THEN Ok(acc, in)
    ELSE IF Len(r.rest) = Len(in) THEN ErrSeq
    ELSE many0_dict_pair(r.rest, Append(acc, r.out))

\* many0(dict_pair)
many0_dict_pair(in, acc) == Many0PairStep(in, acc, dict_pair(in))

\* map(.., |pairs| pairs.into_iter().collect())
MapCollect(r) == IF r.ok THEN Ok(Collect(r.out), r.rest) ELSE ErrSeq

\* map(delimited(char('d'), many0(dict_pair), char('e')), |pairs| collect)
dictionary(in) ==
    IF char(CH_d, in).ok
    THEN MapCollect(DelimitedClose(many0_dict_pair(Tail(in), <<>>), ErrSeq))
    ELSE ErrSeq

\* map(integer, BencodeValue::Integer) and the like
MapInteger(r) == IF r.ok THEN Ok(Integer(r.out), r.rest) ELSE ErrVal
MapByteString(r) == IF r.ok THEN Ok(ByteString(r.out), r.rest) ELSE ErrVal
MapList(r) == IF r.ok THEN Ok(List(r.out), r.rest) ELSE ErrVal
MapDictionary(r) == IF r.ok THEN Ok(Dictionary(r.out), r.rest) ELSE ErrVal

\* alt over the four grammars, each mapped into its variant
AltValue(in) ==
    alt(MapInteger(integer(in)),
        alt(MapByteString(byte_string(in)),
            alt(MapList(list(in)), MapDictionary(dictionary(in)))))

\* common.rs: the dispatcher the list and dictionary grammars recurse into
bencode_value(in) == AltValue(in)

\* Mutant: the whole input must be consumed
AllConsuming(r) == IF r.ok /\ r.rest # <<>> THEN ErrVal ELSE r
parse_bencode_AllConsuming(in) == AllConsuming(AltValue(in))

\* parser.rs: the public entry point
parse_bencode(in) == AltValue(in)

---------------------------------------------------------------------------
(* encoder.rs *)

\* Display for an unsigned number: its decimal digits, most significant first
RECURSIVE DecimalDigits(_)
DecimalDigits(n) ==
    IF n < 10 THEN << CH_0 + n >>
    ELSE Append(DecimalDigits(n \div 10), CH_0 + (n % 10))

\* format!("{}", i) for an isize: a '-' and the digits of the magnitude
FormatInt(i) ==
    IF i < 0 THEN << CH_minus >> \o DecimalDigits(0 - i) ELSE DecimalDigits(i)

\* Mutant: the length is written with a leading zero
LengthPrefixed_Padded(bytes) ==
    << CH_0 >> \o DecimalDigits(Len(bytes)) \o << CH_colon >> \o bytes

\* format!("{}:", bytes.len()) followed by the raw bytes
LengthPrefixed(bytes) ==
    DecimalDigits(Len(bytes)) \o << CH_colon >> \o bytes

RECURSIVE encode_value(_, _)
RECURSIVE encode_items(_, _)
RECURSIVE encode_pairs(_, _)

\* for item in list { encode_value(item, output)?; }
encode_items(items, output) ==
    IF items = <<>> THEN output
    ELSE encode_items(Tail(items), encode_value(items[1], output))

\* for (key, value) in dict { ... }: the BTreeMap iterates in key order
encode_pairs(pairs, output) ==
    IF pairs = <<>> THEN output
    ELSE encode_pairs(Tail(pairs),
             encode_value(pairs[1].val, output \o LengthPrefixed(pairs[1].key)))

\* Mutant: the closing 'e' of a list is not written
encode_value_NoListClose(v, output) ==
    CASE v.kind = "Integer" ->
             output \o << CH_i >> \o FormatInt(v.int) \o << CH_e >>
      [] v.kind = "ByteString" ->
             output \o LengthPrefixed(v.bytes)
      [] v.kind = "List" ->
             encode_items(v.items, Append(output, CH_l))
      [] v.kind = "Dictionary" ->
             Append(encode_pairs(v.pairs, Append(output, CH_d)), CH_e)

\* encode_value(value, output): the buffer after the value is appended to it
encode_value(v, output) ==
    CASE v.kind = "Integer" ->
             output \o << CH_i >> \o FormatInt(v.int) \o << CH_e >>
      [] v.kind = "ByteString" ->
             output \o LengthPrefixed(v.bytes)
      [] v.kind = "List" ->
             Append(encode_items(v.items, Append(output, CH_l)), CH_e)
      [] v.kind = "Dictionary" ->
             Append(encode_pairs(v.pairs, Append(output, CH_d)), CH_e)

encode_to_bytes(v) == encode_value(v, <<>>)

\* impl ToBencode for BencodeValue
to_bencode_value(v) == encode_to_bytes(v)

\* impl ToBencode for BTreeMap<K, V> with V = BencodeValue: the loop body
RECURSIVE to_bencode_pairs(_, _)
to_bencode_pairs(pairs, output) ==
    IF pairs = <<>> THEN output
    ELSE to_bencode_pairs(Tail(pairs),
             output \o LengthPrefixed(pairs[1].key) \o to_bencode_value(pairs[1].val))

to_bencode_map(m) == Append(to_bencode_pairs(m, << CH_d >>), CH_e)

---------------------------------------------------------------------------
(* encoder.rs: the ToBencode implementations of the host-native types.  A
   host value is a record [value, type, n, bytes, items, pairs]: a
   BencodeValue has value, an integer of a type has n, a String, &str,
   Vec<u8> or &[u8] has bytes, a Vec<T> has items and a BTreeMap<K, V> has
   pairs in key order.  ptr is the pointer
   width of the build target, which is the width of isize; the fixed-width
   types are as many isize widths wide as they are on that target. *)

HostInt(type, n) ==
    [value |-> NoValue, type |-> type, n |-> n, bytes |-> <<>>, items |-> <<>>, pairs |-> <<>>]
HostBytes(type, b) ==
    [value |-> NoValue, type |-> type, n |-> 0, bytes |-> b, items |-> <<>>, pairs |-> <<>>]
HostVec(xs) ==
    [value |-> NoValue, type |-> "Vec", n |-> 0, bytes |-> <<>>, items |-> xs, pairs |-> <<>>]
HostMap(m) ==
    [value |-> NoValue, type |-> "BTreeMap", n |-> 0, bytes |-> <<>>, items |-> <<>>, pairs |-> m]
HostValue(v) ==
    [value |-> v, type |-> "BencodeValue", n |-> 0, bytes |-> <<>>, items |-> <<>>, pairs |-> <<>>]
NoHost ==
    [value |-> NoValue, type |-> "None", n |-> 0, bytes |-> <<>>, items |-> <<>>, pairs |-> <<>>]

\* the pointer widths of the targets the crate builds for
PointerWidths == { 32, 64 }

SignedTypes == { "i64", "isize", "i32" }
UnsignedTypes == { "u64", "u32", "u16" }
IntTypes == SignedTypes \cup UnsignedTypes
BytesTypes == { "String", "str", "VecU8", "Slice" }

\* the declared width of a type in bits, isize being as wide as a pointer
TypeWidth(type, p) ==
    CASE type \in { "i64", "u64" } -> 64
      [] type \in { "i32", "u32" } -> 32
      [] type = "u16" -> 16
      [] type = "isize" -> p

\* the width of a type in the bits of the model, where isize has IntBits
HostBits(type, p) == (IntBits * TypeWidth(type, p)) \div p

\* the values of an integer type
HostRange(type, p) ==
    IF type \in SignedTypes
    THEN (0 - Pow2(HostBits(type, p) - 1))..(Pow2(HostBits(type, p) - 1) - 1)
    ELSE 0..(Pow2(HostBits(type, p)) - 1)

\* the low IntBits bits of x, as an unsigned number
LowBits(x) == (x + Pow2(4 * IntBits)) % Pow2(IntBits)

\* x as isize: the low IntBits bits of x, read as two's complement
AsIsize(x) ==
    IF LowBits(x) > ISIZE_MAX THEN LowBits(x) - Pow2(IntBits) ELSE LowBits(x)

\* Result<Vec<u8>, EncodingError>
EncOk(bytes) == [ok |-> TRUE, out |-> bytes]
EncErr == [ok |-> FALSE, out |-> <<>>]

\* impl ToBencode for i64, isize, i32, u64, u32, u16
to_bencode_int(type, n) ==
    IF type = "u64" /\ n > ISIZE_MAX THEN EncErr
    ELSE EncOk(encode_to_bytes(Integer(AsIsize(n))))

\* impl ToBencode for String, &str, Vec<u8>, &[u8]
to_bencode_bytes(b) == EncOk(encode_to_bytes(ByteString(b)))

RECURSIVE to_bencode(_)
RECURSIVE to_bencode_vec_items(_, _)
RECURSIVE to_bencode_map_pairs(_, _)

\* one round of a loop whose body is item.to_bencode()?, r the result of
\* to_bencode on the item: an Err is returned at once
ExtendWith(output, r) == IF r.ok THEN EncOk(output \o r.out) ELSE EncErr

\* for item in self { output.extend_from_slice(&item.to_bencode()?) }
to_bencode_vec_items(items, output) ==
    IF ~output.ok \/ items = <<>> THEN output
    ELSE to_bencode_vec_items(Tail(items), ExtendWith(output.out, to_bencode(items[1])))

\* for (key, value) in self { length, key bytes, value.to_bencode()? }
to_bencode_map_pairs(pairs, output) ==
    IF ~output.ok \/ pairs = <<>> THEN output
    ELSE to_bencode_map_pairs(Tail(pairs),
             ExtendWith(output.out \o LengthPrefixed(pairs[1].key),
                        to_bencode(pairs[1].val)))

\* output.push(b'e'); Ok(output)
PushClose(output) == IF output.ok THEN EncOk(Append(output.out, CH_e)) ELSE EncErr

\* Mutant: the items of a Vec are written last to first
to_bencode_vec_Reversed(items) ==
    PushClose(to_bencode_vec_items(
        [j \in 1..Len(items) |-> items[Len(items) + 1 - j]], EncOk(<< CH_l >>)))

\* impl ToBencode for Vec<T>
to_bencode_vec(items) == PushClose(to_bencode_vec_items(items, EncOk(<< CH_l >>)))

\* impl ToBencode for BTreeMap<K, V>
to_bencode_btreemap(pairs) == PushClose(to_bencode_map_pairs(pairs, EncOk(<< CH_d >>)))

\* the to_bencode of the type of h
to_bencode(h) ==
    CASE h.type \in IntTypes -> to_bencode_int(h.type, h.n)
      [] h.type \in BytesTypes -> to_bencode_bytes(h.bytes)
      [] h.type = "Vec" -> to_bencode_vec(h.items)
      [] h.type = "BTreeMap" -> to_bencode_btreemap(h.pairs)
      [] h.type = "BencodeValue" -> EncOk(to_bencode_value(h.value))

---------------------------------------------------------------------------
(* encoder.rs: encode_to_string, with String::from_utf8 and
   String::from_utf8_lossy as std decodes UTF-8 *)

\* char::REPLACEMENT_CHARACTER (U+FFFD) in UTF-8
REPLACEMENT == << 239, 191, 189 >>

\* safe_get: the byte at index j, 0 past the end
ByteAt(in, j) == IF j <= Len(in) THEN in[j] ELSE 0

\* (byte & 0xC0) == 0x80
IsContinuation(b) == b >= 128 /\ b <= 191

\* utf8_char_width of a leading byte, 0 for a byte that leads nothing
utf8_char_width(b) ==
    IF b < 128 THEN 1
    ELSE IF b >= 194 /\ b <= 223 THEN 2
    ELSE IF b >= 224 /\ b <= 239 THEN 3
    ELSE IF b >= 240 /\ b <= 244 THEN 4
    ELSE 0

\* the second byte that a leading byte of width 3 or 4 admits
SecondByteOk(b1, b2) ==
    CASE b1 = 224 -> b2 >= 160 /\ b2 <= 191
      [] b1 = 237 -> b2 >= 128 /\ b2 <= 159
      [] b1 = 240 -> b2 >= 144 /\ b2 <= 191
      [] b1 = 244 -> b2 >= 128 /\ b2 <= 143
      [] OTHER -> IsContinuation(b2)

\* One step of the decoder on a non-empty input: the length of the
\* character at its start (valid), or the length of the invalid sequence at
\* its start, which ends where the first unexpected byte is.
Utf8Step(in) ==
    CASE utf8_char_width(in[1]) = 1 -> [valid |-> TRUE, len |-> 1]
      [] utf8_char_width(in[1]) = 2 ->
             IF IsContinuation(ByteAt(in, 2)) THEN [valid |-> TRUE, len |-> 2]
             ELSE [valid |-> FALSE, len |-> 1]
      [] utf8_char_width(in[1]) = 3 ->
             IF ~SecondByteOk(in[1], ByteAt(in, 2)) THEN [valid |-> FALSE, len |-> 1]
             ELSE IF ~IsContinuation(ByteAt(in, 3)) THEN [valid |-> FALSE, len |-> 2]
             ELSE [valid |-> TRUE, len |-> 3]
      [] utf8_char_width(in[1]) = 4 ->
             IF ~SecondByteOk(in[1], ByteAt(in, 2)) THEN [valid |-> FALSE, len |-> 1]
             ELSE IF ~IsContinuation(ByteAt(in, 3)) THEN [valid |-> FALSE, len |-> 2]
             ELSE IF ~IsContinuation(ByteAt(in, 4)) THEN [valid |-> FALSE, len |-> 3]
             ELSE [valid |-> TRUE, len |-> 4]
      [] OTHER -> [valid |-> FALSE, len |-> 1]

\* String::from_utf8(bytes).is_ok()
RECURSIVE from_utf8_ok(_)
from_utf8_ok(in) ==
    in = <<>> \/ (Utf8Step(in).valid /\ from_utf8_ok(Drop(in, Utf8Step(in).len)))

\* String::from_utf8_lossy(bytes): the characters are kept and every invalid
\* sequence becomes one REPLACEMENT
RECURSIVE from_utf8_lossy(_)
from_utf8_lossy(in) ==
    IF in = <<>> THEN <<>>
    ELSE (IF Utf8Step(in).valid THEN Take(in, Utf8Step(in).len) ELSE REPLACEMENT)
             \o from_utf8_lossy(Drop(in, Utf8Step(in).len))

\* match String::from_utf8(bytes) { Ok(s) => s, Err(e) => lossy(e.as_bytes()) }
StringOf(bytes) ==
    IF from_utf8_ok(bytes) THEN EncOk(bytes) ELSE EncOk(from_utf8_lossy(bytes))

\* Mutant: bytes that are not UTF-8 are an error (Utf8Error)
encode_to_string_Strict(v) ==
    IF from_utf8_ok(encode_to_bytes(v)) THEN EncOk(encode_to_bytes(v)) ELSE EncErr

\* encode_to_string(value): the bytes of the String returned
encode_to_string(v) == StringOf(encode_to_bytes(v))

---------------------------------------------------------------------------
(* The inputs *)

SeqsUpTo(S, n) == UNION { [1..k -> S] : k \in 0..n }

RECURSIVE Concat(_)
Concat(ss) == IF ss = <<>> THEN <<>> ELSE ss[1] \o Concat(Tail(ss))

\* the bytes input buffers are made of: the markers, the separator, the sign,
\* digits, and bytes that are neither (a NUL, a byte that is not UTF-8)
Alphabet == { CH_i, CH_e, CH_l, CH_d, CH_colon, CH_minus, CH_0, CH_1, CH_2, NUL, XFF }

\* what precedes a value: nothing, an open list, an open dictionary and a key
ValuePrefixes == { <<>>, << CH_l >>, << CH_d, CH_0, CH_colon >> }

\* well-formed pieces of an encoding
Tokens == { << CH_d >>, << CH_l >>, << CH_e >>,
            << CH_1, CH_colon, CH_b >>, << CH_2, CH_colon, CH_a, CH_b >>,
            << CH_i, CH_1, CH_e >> }

\* trailing data after a value
ExtraBytes == { CH_e, CH_0, CH_colon, CH_i, NUL }

\* the values a caller constructs directly
StrBytes == { NUL, CH_e, CH_1, XFF }
Keys == { <<>>, << CH_b >>, << CH_a, CH_b >> }
TopLeaves == { Integer(n) : n \in ISIZE_MIN..ISIZE_MAX }
             \cup { ByteString(b) : b \in SeqsUpTo(StrBytes, MaxStr) }
InnerLeaves == { Integer(ISIZE_MIN), Integer(ISIZE_MAX), ByteString(<<>>), ByteString(<< CH_e >>) }

\* the values that are put inside containers: the containers and the inner leaves
Nestable(v) == v.kind \in { "List", "Dictionary" } \/ v \in InnerLeaves

\* the host-native values a caller converts directly
TextBytes == { CH_e, CH_1 }
HostLeaves(p) ==
    UNION { { HostInt(t, n) : n \in HostRange(t, p) } : t \in IntTypes } \cup
    { HostBytes(t, b) : t \in { "String", "str" }, b \in SeqsUpTo(TextBytes, MaxStr) } \cup
    { HostBytes(t, b) : t \in { "VecU8", "Slice" }, b \in SeqsUpTo(StrBytes, MaxStr) }

\* the host-native values that are put inside a Vec or a BTreeMap: the least
\* and the greatest value of every integer type, text, raw bytes and values
HostItems(p) ==
    UNION { { HostInt(t, 0 - Pow2(HostBits(t, p) - 1)),
              HostInt(t, Pow2(HostBits(t, p) - 1) - 1) } : t \in SignedTypes } \cup
    { HostInt(t, Pow2(HostBits(t, p)) - 1) : t \in UnsignedTypes } \cup
    { HostInt("u64", 1), HostInt("u64", 2), HostBytes("str", << CH_e >>),
      HostBytes("Slice", << XFF >>), HostValue(Integer(1)),
      HostValue(List(<< ByteString(<< CH_e >>) >>)) }

\* T of a Vec<T> or V of a BTreeMap<K, V>: one type for all the members
MemberTypes(h) ==
    { h.items[j].type : j \in 1..Len(h.items) } \cup
    { h.pairs[j].val.type : j \in 1..Len(h.pairs) }

\* the bytes of the byte strings rendered as text: ASCII, the bytes of a
\* two-byte and of a three-byte character, and a byte that leads nothing
Utf8Bytes == { CH_e, 195, 169, 226, 130, 172, XFF }

\* the digits of integer literals, and what may follow a literal
Digits == CH_0..CH_9
LiteralEnds == { <<>>, << CH_e >>, << CH_e, CH_e >> }

RECURSIVE Size(_)
RECURSIVE SizeAll(_)
SizeAll(vs) == IF vs = <<>> THEN 0 ELSE Size(vs[1]) + SizeAll(Tail(vs))
Size(v) ==
    1 + SizeAll(v.items) + SizeAll([j \in 1..Len(v.pairs) |-> v.pairs[j].val])

---------------------------------------------------------------------------
(* The state machine.  input: the buffer handed to parse_bencode; value: the
   BencodeValue handed to the encoder; parsed, encoded, reparsed, reencoded:
   the results of parse_bencode(input), encode_to_bytes(value),
   parse_bencode(encoded), encode_to_bytes(reparsed value); extended: the
   result of parse_bencode(input followed by extra); truncated: the result
   of parse_bencode(the first cut bytes of input); hostenc: the result of
   to_bencode on the BTreeMap of a dictionary. *)

Unset ==
    /\ parsed = ErrVal
    /\ encoded = <<>>
    /\ reparsed = ErrVal
    /\ reencoded = <<>>
    /\ extra = <<>>
    /\ extended = ErrVal
    /\ cut = 0
    /\ truncated = ErrVal
    /\ hostenc = <<>>
    /\ hostres = EncErr
    /\ text = EncErr

\* a caller holds a buffer of arbitrary bytes, possibly inside a container
Init ==
    /\ \E pre \in ValuePrefixes, x \in SeqsUpTo(Alphabet, MaxLen) : input = pre \o x
    /\ value = NoValue
    /\ pc = "input"
    /\ ptr = 64
    /\ host = NoHost
    /\ Unset

\* a caller holds a buffer made of well-formed pieces in any arrangement
InitTokens ==
    /\ \E ts \in SeqsUpTo(Tokens, MaxTokens) : input = Concat(ts)
    /\ value = NoValue
    /\ pc = "input"
    /\ ptr = 64
    /\ host = NoHost
    /\ Unset

\* a caller starts to construct a value
InitValue ==
    /\ input = <<>>
    /\ value \in TopLeaves \cup { List(<<>>), Dictionary(<<>>) }
    /\ pc = "build"
    /\ ptr = 64
    /\ host = NoHost
    /\ Unset

\* a caller holds a buffer with an integer literal of any digits, with or
\* without a sign, possibly inside a container
InitInteger ==
    /\ \E pre \in ValuePrefixes, sign \in { <<>>, << CH_minus >> },
          ds \in SeqsUpTo(Digits, MaxDigits), end \in LiteralEnds :
          input = pre \o << CH_i >> \o sign \o ds \o end
    /\ value = NoValue
    /\ pc = "input"
    /\ ptr = 64
    /\ host = NoHost
    /\ Unset

\* parse_bencode(input); on Ok the caller keeps the value
Parse ==
    /\ pc = "input"
    /\ parsed' = parse_bencode(input)
    /\ value' = parsed'.out
    /\ pc' = "parsed"
    /\ UNCHANGED hostvars
    /\ UNCHANGED <<input, encoded, reparsed, reencoded, extra, extended, cut, truncated, hostenc>>

\* parse_bencode on a buffer that holds a complete encoding and trailing data
ParseExtended ==
    /\ pc = "parsed"
    /\ parsed.ok
    /\ parsed.rest = <<>>
    /\ \E y \in SeqsUpTo(ExtraBytes, MaxExtra) \ { <<>> } :
          /\ extra' = y
          /\ extended' = parse_bencode(input \o y)
    /\ pc' = "extended"
    /\ UNCHANGED hostvars
    /\ UNCHANGED <<input, value, parsed, encoded, reparsed, reencoded, cut, truncated, hostenc>>

\* parse_bencode on a buffer that holds a proper prefix of a complete encoding
ParseTruncated ==
    /\ pc = "parsed"
    /\ parsed.ok
    /\ parsed.rest = <<>>
    /\ \E k \in 0..(Len(input) - 1) :
          /\ cut' = k
          /\ truncated' = parse_bencode(Take(input, k))
    /\ pc' = "truncated"
    /\ UNCHANGED hostvars
    /\ UNCHANGED <<input, value, parsed, encoded, reparsed, reencoded, extra, extended, hostenc>>

\* vec![...] / Vec::push of a leaf, wrapped as BencodeValue::List
PushItem ==
    /\ pc = "build"
    /\ value.kind = "List"
    /\ Size(value) < MaxNodes
    /\ \E leaf \in InnerLeaves : value' = List(Append(value.items, leaf))
    /\ UNCHANGED hostvars
    /\ UNCHANGED <<input, parsed, encoded, reparsed, reencoded, extra, extended, cut, truncated, hostenc, pc>>

\* dict.insert(key, leaf), wrapped as BencodeValue::Dictionary
InsertPair ==
    /\ pc = "build"
    /\ value.kind = "Dictionary"
    /\ Size(value) < MaxNodes
    /\ \E k \in Keys, leaf \in InnerLeaves :
          value' = Dictionary(BTreeInsert(value.pairs, k, leaf))
    /\ UNCHANGED hostvars
    /\ UNCHANGED <<input, parsed, encoded, reparsed, reencoded, extra, extended, cut, truncated, hostenc, pc>>

\* BencodeValue::List(vec![value])
WrapInList ==
    /\ pc = "build"
    /\ Nestable(value)
    /\ Size(value) < MaxNodes
    /\ value' = List(<< value >>)
    /\ UNCHANGED hostvars
    /\ UNCHANGED <<input, parsed, encoded, reparsed, reencoded, extra, extended, cut, truncated, hostenc, pc>>

\* dict.insert(key, value) into a new map, wrapped as BencodeValue::Dictionary
WrapInDictionary ==
    /\ pc = "build"
    /\ Nestable(value)
    /\ Size(value) < MaxNodes
    /\ \E k \in Keys : value' = Dictionary(BTreeInsert(<<>>, k, value))
    /\ UNCHANGED hostvars
    /\ UNCHANGED <<input, parsed, encoded, reparsed, reencoded, extra, extended, cut, truncated, hostenc, pc>>

\* encode_to_bytes(value)
Encode ==
    /\ pc \in { "parsed", "build" }
    /\ value # NoValue
    /\ encoded' = encode_to_bytes(value)
    /\ pc' = "encoded"
    /\ UNCHANGED hostvars
    /\ UNCHANGED <<input, value, parsed, reparsed, reencoded, extra, extended, cut, truncated, hostenc>>

\* map.to_bencode() on the BTreeMap of a dictionary
ToBencode ==
    /\ pc = "build"
    /\ value.kind = "Dictionary"
    /\ hostenc' = to_bencode_map(value.pairs)
    /\ pc' = "host"
    /\ UNCHANGED hostvars
    /\ UNCHANGED <<input, value, parsed, encoded, reparsed, reencoded, extra, extended, cut, truncated>>

\* parse_bencode(encoded)
Reparse ==
    /\ pc = "encoded"
    /\ reparsed' = parse_bencode(encoded)
    /\ pc' = "reparsed"
    /\ UNCHANGED hostvars
    /\ UNCHANGED <<input, value, parsed, encoded, reencoded, extra, extended, cut, truncated, hostenc>>

\* encode_to_bytes of the value parsed back from the encoding
Reencode ==
    /\ pc = "reparsed"
    /\ reparsed.ok
    /\ reencoded' = encode_to_bytes(reparsed.out)
    /\ pc' = "done"
    /\ UNCHANGED hostvars
    /\ UNCHANGED <<input, value, parsed, encoded, reparsed, extra, extended, cut, truncated, hostenc>>

\* a caller holds a host-native value, on a build of either pointer width
InitHost ==
    /\ input = <<>>
    /\ value = NoValue
    /\ pc = "build"
    /\ ptr \in PointerWidths
    /\ host \in HostLeaves(ptr) \cup { HostVec(<<>>), HostMap(<<>>) }
    /\ Unset

\* vec.push(item), the items of a Vec<T> being of one type
HostPush ==
    /\ pc = "build"
    /\ host.type = "Vec"
    /\ Size(host) < MaxNodes
    /\ \E item \in HostItems(ptr) :
          /\ MemberTypes(host) \subseteq { item.type }
          /\ host' = HostVec(Append(host.items, item))
    /\ UNCHANGED <<input, value, parsed, encoded, reparsed, reencoded, extra, extended, cut, truncated, hostenc, pc>>
    /\ UNCHANGED <<ptr, hostres, text>>

\* map.insert(key, item), the values of a BTreeMap<K, V> being of one type
HostInsert ==
    /\ pc = "build"
    /\ host.type = "BTreeMap"
    /\ Size(host) < MaxNodes
    /\ \E k \in Keys, item \in HostItems(ptr) :
          /\ MemberTypes(host) \subseteq { item.type }
          /\ host' = HostMap(BTreeInsert(host.pairs, k, item))
    /\ UNCHANGED <<input, value, parsed, encoded, reparsed, reencoded, extra, extended, cut, truncated, hostenc, pc>>
    /\ UNCHANGED <<ptr, hostres, text>>

\* vec![host]: a Vec of a Vec or of a BTreeMap
HostWrapInVec ==
    /\ pc = "build"
    /\ host.type \in { "Vec", "BTreeMap" }
    /\ Size(host) < MaxNodes
    /\ host' = HostVec(<< host >>)
    /\ UNCHANGED <<input, value, parsed, encoded, reparsed, reencoded, extra, extended, cut, truncated, hostenc, pc>>
    /\ UNCHANGED <<ptr, hostres, text>>

\* map.insert(key, host) into a new map: a BTreeMap of a Vec or of a BTreeMap
HostWrapInMap ==
    /\ pc = "build"
    /\ host.type \in { "Vec", "BTreeMap" }
    /\ Size(host) < MaxNodes
    /\ \E k \in Keys : host' = HostMap(BTreeInsert(<<>>, k, host))
    /\ UNCHANGED <<input, value, parsed, encoded, reparsed, reencoded, extra, extended, cut, truncated, hostenc, pc>>
    /\ UNCHANGED <<ptr, hostres, text>>

\* host.to_bencode()
ToBencodeNative ==
    /\ pc = "build"
    /\ host # NoHost
    /\ hostres' = to_bencode(host)
    /\ pc' = "native"
    /\ UNCHANGED <<input, value, parsed, encoded, reparsed, reencoded, extra, extended, cut, truncated, hostenc>>
    /\ UNCHANGED <<ptr, host, text>>

\* a caller holds a byte string to display
InitText ==
    /\ input = <<>>
    /\ value \in { ByteString(b) : b \in SeqsUpTo(Utf8Bytes, MaxText) }
    /\ pc = "build"
    /\ ptr = 64
    /\ host = NoHost
    /\ Unset

\* BencodeValue::List(vec![value]) of the byte string
TextInList ==
    /\ pc = "build"
    /\ value.kind = "ByteString"
    /\ value' = List(<< value >>)
    /\ UNCHANGED hostvars
    /\ UNCHANGED <<input, parsed, encoded, reparsed, reencoded, extra, extended, cut, truncated, hostenc, pc>>

\* the byte string as a key and as the value of a dictionary
TextInDictionary ==
    /\ pc = "build"
    /\ value.kind = "ByteString"
    /\ value' = Dictionary(BTreeInsert(<<>>, value.bytes, value))
    /\ UNCHANGED hostvars
    /\ UNCHANGED <<input, parsed, encoded, reparsed, reencoded, extra, extended, cut, truncated, hostenc, pc>>

\* encode_to_string(value)
EncodeToString ==
    /\ pc = "build"
    /\ text' = encode_to_string(value)
    /\ pc' = "text"
    /\ UNCHANGED <<input, value, parsed, encoded, reparsed, reencoded, extra, extended, cut, truncated, hostenc>>
    /\ UNCHANGED <<ptr, host, hostres>>

Next == Parse \/ ParseExtended \/ ParseTruncated \/ Encode \/ Reparse \/ Reencode

NextValue ==
    \/ PushItem \/ InsertPair \/ WrapInList \/ WrapInDictionary
    \/ Encode \/ ToBencode \/ Reparse \/ Reencode

NextHost == HostPush \/ HostInsert \/ HostWrapInVec \/ HostWrapInMap \/ ToBencodeNative

NextText == TextInList \/ TextInDictionary \/ EncodeToString

\* bytes in, byte-level inputs
Spec == Init /\ [][Next]_vars
\* bytes in, inputs arranged from well-formed pieces
SpecTokens == InitTokens /\ [][Next]_vars
\* bytes in, integer literals
SpecInteger == InitInteger /\ [][Next]_vars
\* values in
SpecValue == InitValue /\ [][NextValue]_vars
\* host-native values in
SpecHost == InitHost /\ [][NextHost]_vars
\* values to display
SpecText == InitText /\ [][NextText]_vars

---------------------------------------------------------------------------
(* Vocabulary of the properties *)

StartsWith(s, p) == Len(s) >= Len(p) /\ Take(s, Len(p)) = p

\* the keys of a sequence of [key, val] pairs, in order
KeysOf(ps) == [j \in 1..Len(ps) |-> ps[j].key]

StrictlyAscending(ks) == \A j \in 1..(Len(ks) - 1) : LexLess(ks[j], ks[j + 1])

\* every value of a value tree, the root included
RECURSIVE SubValues(_)
SubValues(v) ==
    { v } \cup UNION { SubValues(v.items[j]) : j \in 1..Len(v.items) }
          \cup UNION { SubValues(v.pairs[j].val) : j \in 1..Len(v.pairs) }

SubDictionaries(v) == { sv \in SubValues(v) : sv.kind = "Dictionary" }

\* A reader of the wire format that only delimits values and decodes none:
\* the bytes that follow the first value of a buffer.  An integer ends at its
\* first 'e', a byte string after its declared length, a container at the
\* 'e' that follows its last member.
RECURSIVE SkipValue(_)
RECURSIVE SkipMembers(_)
SkipMembers(in) ==
    IF in = <<>> THEN [ok |-> FALSE, rest |-> <<>>]
    ELSE IF in[1] = CH_e THEN [ok |-> TRUE, rest |-> Tail(in)]
    ELSE LET r == SkipValue(in)
         IN  IF r.ok THEN SkipMembers(r.rest) ELSE r
SkipValue(in) ==
    IF in = <<>> THEN [ok |-> FALSE, rest |-> <<>>]
    ELSE IF in[1] = CH_i
         THEN IF \E j \in 2..Len(in) : in[j] = CH_e
              THEN [ok |-> TRUE,
                    rest |-> Drop(in, CHOOSE j \in 2..Len(in) :
                                 in[j] = CH_e /\ \A h \in 2..(j - 1) : in[h] # CH_e)]
              ELSE [ok |-> FALSE, rest |-> <<>>]
    ELSE IF IsDigit(in[1])
         THEN [ok |-> byte_string(in).ok, rest |-> byte_string(in).rest]
    ELSE IF in[1] \in { CH_l, CH_d } THEN SkipMembers(Tail(in))
    ELSE [ok |-> FALSE, rest |-> <<>>]

\* the keys of the members of an encoded dictionary, in the order they are
\* on the wire: in is what follows the 'd'
RECURSIVE WireKeysFrom(_, _)
WireKeysFrom(in, acc) ==
    IF in = <<>> \/ in[1] = CH_e \/ ~byte_string(in).ok THEN acc
    ELSE LET v == SkipValue(byte_string(in).rest)
         IN  IF ~v.ok THEN acc
             ELSE WireKeysFrom(v.rest, Append(acc, byte_string(in).out))

WireKeys(bytes) == WireKeysFrom(Tail(bytes), <<>>)

\* every order a sequence can be arranged in
Arrangements(s) ==
    { [j \in 1..Len(s) |-> s[f[j]]] : f \in Permutations(1..Len(s)) }

\* the byte segments of the pairs that follow the 'd' of a dictionary, in
\* wire order, and the bytes that follow the last pair
RECURSIVE PairSegments(_, _)
PairSegments(in, acc) ==
    LET r == dict_pair(in)
    IN  IF ~r.ok \/ Len(r.rest) = Len(in) THEN [segs |-> acc, rest |-> in]
        ELSE PairSegments(r.rest,
                 Append(acc, [key |-> byte_string(in).out,
                              seg |-> Take(in, Len(in) - Len(r.rest))]))

\* stable insertion of a segment into segments sorted by key
RECURSIVE InsertSegment(_, _)
InsertSegment(sorted, s) ==
    IF sorted = <<>> THEN << s >>
    ELSE IF LexLess(s.key, sorted[1].key) THEN << s >> \o sorted
    ELSE << sorted[1] >> \o InsertSegment(Tail(sorted), s)

RECURSIVE SortSegments(_, _)
SortSegments(sorted, ss) ==
    IF ss = <<>> THEN sorted
    ELSE SortSegments(InsertSegment(sorted, ss[1]), Tail(ss))

\* an input that starts with 'd', with its pairs rearranged in ascending key
\* order (pairs of equal keys keep their relative order)
SortedForm(in) ==
    LET p == PairSegments(Tail(in), <<>>)
        sorted == SortSegments(<<>>, p.segs)
    IN  << CH_d >> \o Concat([j \in 1..Len(sorted) |-> sorted[j].seg]) \o p.rest

---------------------------------------------------------------------------
(* Properties *)

\* C1: round trip of parsed values.  Whenever parse_bencode succeeded on the
\* input with value v, parsing encode_to_bytes(v) succeeds and returns
\* exactly v and an empty remainder.
C1_RoundTripParsed ==
    (pc \in { "reparsed", "done" } /\ parsed.ok) =>
        reparsed = Ok(parsed.out, <<>>)

\* C1 witness: a dictionary whose two keys were not in order on the wire was
\* parsed, encoded to different bytes and parsed back.
C1_Witness ==
    /\ pc = "reparsed"
    /\ parsed.ok
    /\ parsed.out.kind = "Dictionary"
    /\ Len(parsed.out.pairs) = 2
    /\ encoded # input
    /\ reparsed.ok

\* C2: round trip of constructed values.  For every value built directly,
\* parsing its encoding succeeds with an equal value and an empty remainder.
C2_RoundTripConstructed ==
    (pc \in { "reparsed", "done" }) => reparsed = Ok(value, <<>>)

\* C3: idempotent canonicalization.  For every value v, parsing the encoding
\* of v yields a value, and encoding that value gives the encoding of v.
C3_IdempotentCanonicalization ==
    /\ (pc \in { "reparsed", "done" } => reparsed.ok)
    /\ (pc = "done" => reencoded = encoded)

\* the encoding bytes of a dictionary have its keys, all of them, in strictly
\* ascending order on the wire, whatever order its pairs are inserted in
SortedOnEncode(d, bytes) ==
    /\ WireKeys(bytes) = KeysOf(d.pairs)
    /\ StrictlyAscending(WireKeys(bytes))
    /\ \A sv \in SubDictionaries(d) :
          /\ WireKeys(encode_to_bytes(sv)) = KeysOf(sv.pairs)
          /\ StrictlyAscending(WireKeys(encode_to_bytes(sv)))

\* C4: key sorting on encode.  The encoding of a dictionary, by
\* encode_to_bytes and by to_bencode on its BTreeMap, has the pairs in
\* strictly ascending byte-lexicographic key order at every nesting level,
\* and is the same for every order in which the pairs are inserted.
C4_KeySortingOnEncode ==
    /\ (pc = "encoded" /\ value.kind = "Dictionary") =>
          /\ SortedOnEncode(value, encoded)
          /\ \A p \in Arrangements(value.pairs) :
                encode_to_bytes(Dictionary(Collect(p))) = encoded
    /\ (pc = "host") =>
          /\ SortedOnEncode(value, hostenc)
          /\ \A p \in Arrangements(value.pairs) :
                to_bencode_map(Collect(p)) = hostenc

\* C4 witness: a dictionary that holds a dictionary with two keys has been
\* encoded.
C4_Witness ==
    /\ pc = "encoded"
    /\ value.kind = "Dictionary"
    /\ Len(value.pairs) = 1
    /\ value.pairs[1].val.kind = "Dictionary"
    /\ Len(value.pairs[1].val.pairs) = 2

\* C5: lenient on input, sorted by invariant.  Every dictionary of a parsed
\* value has its keys in strictly ascending byte-lexicographic order (hence
\* pairwise distinct), and parsing a dictionary gives the result of parsing
\* the same pairs arranged in ascending key order.
C5_LenientInputSortedResult ==
    (pc = "parsed") =>
        /\ parsed.ok =>
              \A d \in SubDictionaries(parsed.out) :
                  StrictlyAscending(KeysOf(d.pairs))
        /\ StartsWith(input, << CH_d >>) =>
              parse_bencode(SortedForm(input)) = parsed

\* C5 witness: a dictionary whose two keys are in descending order on the
\* wire has been parsed.
C5_Witness ==
    /\ pc = "parsed"
    /\ parsed.ok
    /\ StartsWith(input, << CH_d >>)
    /\ SortedForm(input) # input
    /\ Len(parsed.out.pairs) = 2

\* a literal whose digit sequence has more than one digit and starts with
\* '0': a byte-string length, or an integer with or without a sign
LeadingZeroLiteral(x) ==
    \/ Len(x) >= 2 /\ x[1] = CH_0 /\ IsDigit(x[2])
    \/ Len(x) >= 3 /\ x[1] = CH_i /\ x[2] = CH_0 /\ IsDigit(x[3])
    \/ Len(x) >= 4 /\ x[1] = CH_i /\ x[2] = CH_minus /\ x[3] = CH_0 /\ IsDigit(x[4])

\* what precedes a literal: a value position, or the key position of a
\* dictionary
LiteralPrefixes == ValuePrefixes \cup { << CH_d >> }

\* C6: leading-zero rejection.  Parsing fails on every input that has an
\* integer literal or a byte-string length with more than one digit and a
\* leading '0', at top level, in a list and in a dictionary; "0:" and "i0e"
\* parse to the empty byte string and to integer 0, nested too.
C6_LeadingZeroRejection ==
    (pc = "parsed") =>
        /\ \A pre \in LiteralPrefixes :
              (StartsWith(input, pre) /\ LeadingZeroLiteral(Drop(input, Len(pre))))
                  => (~parsed.ok /\ value = NoValue)
        /\ input = << CH_0, CH_colon >> => parsed = Ok(ByteString(<<>>), <<>>)
        /\ input = << CH_i, CH_0, CH_e >> => parsed = Ok(Integer(0), <<>>)
        /\ input = << CH_l, CH_i, CH_0, CH_e, CH_e >>
              => parsed = Ok(List(<< Integer(0) >>), <<>>)
        /\ input = << CH_d, CH_0, CH_colon, CH_0, CH_colon, CH_e >>
              => parsed = Ok(Dictionary(<< [key |-> <<>>, val |-> ByteString(<<>>)] >>), <<>>)

\* C6 witness: an integer with a leading zero as the value of a dictionary
\* key has been handed to the parser.
C6_Witness ==
    /\ pc = "parsed"
    /\ StartsWith(input, << CH_d, CH_0, CH_colon, CH_i, CH_0, CH_1, CH_e >>)
    /\ ~parsed.ok

\* C7: negative zero rejection.  Parsing fails on every input whose integer
\* literal has a '-' and a digit sequence that starts with '0' ("i-0e"
\* included), at top level and nested; a successful parse of a signed
\* literal yields a strictly negative integer.
C7_NegativeZeroRejection ==
    (pc = "parsed") =>
        /\ \A pre \in ValuePrefixes :
              StartsWith(input, pre \o << CH_i, CH_minus, CH_0 >>) => ~parsed.ok
        /\ (parsed.ok /\ StartsWith(input, << CH_i, CH_minus >>))
              => (parsed.out.kind = "Integer" /\ parsed.out.int < 0)
        /\ (parsed.ok /\ StartsWith(input, << CH_l, CH_i, CH_minus >>))
              => (parsed.out.items # <<>> /\ parsed.out.items[1].int < 0)

\* C7 witness: "i-0e" has been handed to the parser.
C7_Witness ==
    /\ pc = "parsed"
    /\ input = << CH_i, CH_minus, CH_0, CH_e >>
    /\ ~parsed.ok

\* C8: binary-safe exact-length byte strings.  On an input that is a
\* decimal length n, a ':' and at least n more bytes, the result is exactly
\* the n bytes after the ':', whatever they are, and the remainder is what
\* follows them.
C8_BinarySafeExactLength ==
    (pc = "parsed") =>
        \A n \in 0..Len(input) :
            LET head == DecimalDigits(n) \o << CH_colon >>
            IN  (StartsWith(input, head) /\ Len(input) - Len(head) >= n) =>
                    /\ parsed = Ok(ByteString(SubSeq(input, Len(head) + 1, Len(head) + n)),
                                   Drop(input, Len(head) + n))
                    /\ Len(parsed.out.bytes) = n

\* C8 witness: a byte string of a NUL and a byte that is not UTF-8 has been
\* parsed.
C8_Witness ==
    /\ pc = "parsed"
    /\ input = << CH_2, CH_colon, NUL, XFF >>
    /\ parsed.ok

\* C9: partial consumption.  When an input parses to a value with an empty
\* remainder, the input followed by any bytes parses to the same value with
\* exactly those bytes as the remainder.
C9_PartialConsumption ==
    (pc = "extended") => extended = Ok(parsed.out, extra)

\* C9 witness: a dictionary with a pair, followed by trailing data, has been
\* parsed.
C9_Witness ==
    /\ pc = "extended"
    /\ parsed.out.kind = "Dictionary"
    /\ parsed.out.pairs # <<>>
    /\ extra # <<>>
    /\ extended.ok

\* the input starts with a non-empty run of digits that no ':' follows
MissingSeparator(x) ==
    /\ x # <<>>
    /\ IsDigit(x[1])
    /\ digit1(x).rest = <<>> \/ digit1(x).rest[1] # CH_colon

\* C10: truncated or unterminated input is a parse failure.  Parsing fails,
\* with no value, when the declared length of a byte string exceeds the
\* bytes after the ':', when the ':' is missing, when the input is empty,
\* and on every proper prefix of a complete encoding (an integer, a list or
\* a dictionary without its closing 'e').
C10_TruncatedInputFails ==
    /\ (pc = "parsed") =>
          /\ \A n \in 1..USIZE_MAX :
                LET head == DecimalDigits(n) \o << CH_colon >>
                IN  (StartsWith(input, head) /\ Len(input) - Len(head) < n)
                        => (~parsed.ok /\ value = NoValue)
          /\ MissingSeparator(input) => (~parsed.ok /\ value = NoValue)
          /\ input = <<>> => (~parsed.ok /\ value = NoValue)
          /\ input \in { << CH_i, CH_1 >>, << CH_l, CH_i, CH_1, CH_e >>,
                         << CH_d, CH_0, CH_colon, CH_i, CH_1, CH_e >> }
                => (~parsed.ok /\ value = NoValue)
    /\ (pc = "truncated") => (~truncated.ok /\ truncated.out = NoValue)

\* C10 witness: a dictionary cut before its closing 'e' has been handed to
\* the parser.
C10_Witness ==
    /\ pc = "truncated"
    /\ parsed.out.kind = "Dictionary"
    /\ parsed.out.pairs # <<>>
    /\ cut = Len(input) - 1
    /\ ~truncated.ok

\* the segment is a run of complete list elements and nothing else
ElementsSegment(seg) ==
    many0_bencode_value(seg, <<>>) = Ok(many0_bencode_value(seg, <<>>).out, <<>>)

\* the segment is a run of complete dictionary pairs and nothing else
PairsSegment(seg) ==
    many0_dict_pair(seg, <<>>) = Ok(many0_dict_pair(seg, <<>>).out, <<>>)

\* what stands at an element position is not the closing 'e' and does not
\* parse as a value
FailsAsElement(y) == (y = <<>> \/ y[1] # CH_e) /\ ~bencode_value(y).ok

\* what stands at a key position is not the closing 'e' and is a key that is
\* not a byte string, a key with no value after it, or a key whose value
\* does not parse
FailsAsPair(y) ==
    /\ y = <<>> \/ y[1] # CH_e
    /\ \/ ~byte_string(y).ok
       \/ byte_string(y).rest = <<>>
       \/ byte_string(y).rest[1] = CH_e
       \/ ~bencode_value(byte_string(y).rest).ok

\* x is an open list or dictionary that has, after complete members, a member
\* that fails
ContainerFails(x) ==
    /\ x # <<>>
    /\ \E p \in 1..Len(x) :
          \/ x[1] = CH_l /\ ElementsSegment(SubSeq(x, 2, p)) /\ FailsAsElement(Drop(x, p))
          \/ x[1] = CH_d /\ PairsSegment(SubSeq(x, 2, p)) /\ FailsAsPair(Drop(x, p))

\* what precedes a nested container: lists and dictionary keys, two deep
NestingPrefixes ==
    { <<>>, << CH_l >>, << CH_l, CH_l >>, << CH_d, CH_0, CH_colon >>,
      << CH_d, CH_1, CH_colon, CH_b >>, << CH_l, CH_d, CH_1, CH_colon, CH_b >>,
      << CH_d, CH_1, CH_colon, CH_b, CH_l >> }

\* C11: nested failures propagate.  When a list has an element that fails to
\* parse, or a dictionary has a key that is not a byte string, a key with no
\* value or a value that fails to parse, the parse of that container and of
\* every container around it fails and yields no value.
C11_NestedFailurePropagates ==
    (pc = "parsed") =>
        \A pre \in NestingPrefixes :
            (StartsWith(input, pre) /\ ContainerFails(Drop(input, Len(pre))))
                => (~parsed.ok /\ value = NoValue)

\* C11 witness: a list that holds, after a complete element, a dictionary
\* whose key has no value has been handed to the parser.
C11_Witness ==
    /\ pc = "parsed"
    /\ input = << CH_l, CH_i, CH_1, CH_e, CH_d, CH_1, CH_colon, CH_b, CH_e, CH_e >>
    /\ ~parsed.ok

\* the integers of a host value, with their types
RECURSIVE HostInts(_)
HostInts(h) ==
    (IF h.type \in IntTypes THEN { h } ELSE {})
    \cup UNION { HostInts(h.items[j]) : j \in 1..Len(h.items) }
    \cup UNION { HostInts(h.pairs[j].val) : j \in 1..Len(h.pairs) }

\* a host integer that the integer type of the value model cannot hold
OutOfRange(h) == h.n < ISIZE_MIN \/ h.n > ISIZE_MAX

\* C12: range overflow on encode is a failure.  to_bencode on a host-native
\* integer outside the range of isize, alone or inside a Vec or a BTreeMap,
\* returns an error and no bytes; to_bencode on every other input succeeds.
C12_RangeOverflowFails ==
    (pc = "native") =>
        /\ (\E h \in HostInts(host) : OutOfRange(h)) => hostres = EncErr
        /\ (\A h \in HostInts(host) : ~OutOfRange(h)) => hostres.ok

\* a well-formed UTF-8 byte sequence of one character (Unicode, table 3-7)
IsCharacter(c) ==
    \/ Len(c) = 1 /\ c[1] <= 127
    \/ Len(c) = 2 /\ c[1] \in 194..223 /\ c[2] \in 128..191
    \/ /\ Len(c) = 3
       /\ c[3] \in 128..191
       /\ \/ c[1] = 224 /\ c[2] \in 160..191
          \/ c[1] \in (225..236) \cup { 238, 239 } /\ c[2] \in 128..191
          \/ c[1] = 237 /\ c[2] \in 128..159
    \/ /\ Len(c) = 4
       /\ c[3] \in 128..191
       /\ c[4] \in 128..191
       /\ \/ c[1] = 240 /\ c[2] \in 144..191
          \/ c[1] \in 241..243 /\ c[2] \in 128..191
          \/ c[1] = 244 /\ c[2] \in 128..143

\* the length of the character at the start of s, 0 if there is none
CharacterAt(s) ==
    IF \E k \in 1..4 : k <= Len(s) /\ IsCharacter(Take(s, k))
    THEN CHOOSE k \in 1..4 : k <= Len(s) /\ IsCharacter(Take(s, k))
    ELSE 0

\* s is a sequence of characters
RECURSIVE IsText(_)
IsText(s) == s = <<>> \/ (CharacterAt(s) > 0 /\ IsText(Drop(s, CharacterAt(s))))

\* the characters of s other than the marker, in order, with the bytes that
\* belong to no character left out
RECURSIVE ValidParts(_)
ValidParts(s) ==
    IF s = <<>> THEN <<>>
    ELSE IF CharacterAt(s) = 0 THEN ValidParts(Tail(s))
    ELSE IF Take(s, CharacterAt(s)) = REPLACEMENT THEN ValidParts(Drop(s, 3))
    ELSE Take(s, CharacterAt(s)) \o ValidParts(Drop(s, CharacterAt(s)))

\* s with every run of markers and of bytes that belong to no character
\* replaced by one gap (-1): where the kept characters and the gaps are
RECURSIVE Layout(_, _)
Layout(s, ingap) ==
    IF s = <<>> THEN <<>>
    ELSE IF CharacterAt(s) = 0
         THEN (IF ingap THEN <<>> ELSE << -1 >>) \o Layout(Tail(s), TRUE)
    ELSE IF Take(s, CharacterAt(s)) = REPLACEMENT
         THEN (IF ingap THEN <<>> ELSE << -1 >>) \o Layout(Drop(s, 3), TRUE)
    ELSE Take(s, CharacterAt(s)) \o Layout(Drop(s, CharacterAt(s)), FALSE)

\* C13: the text rendering never fails.  encode_to_string returns Ok; when
\* the canonical bytes are valid UTF-8 the text is exactly those bytes;
\* otherwise the text is valid UTF-8, keeps every valid character in its
\* place and has markers exactly where the invalid sequences were.
C13_TextRenderingNeverFails ==
    (pc = "text") =>
        /\ text.ok
        /\ IsText(encode_to_bytes(value)) => text.out = encode_to_bytes(value)
        /\ ~IsText(encode_to_bytes(value)) =>
              /\ IsText(text.out)
              /\ ValidParts(text.out) = ValidParts(encode_to_bytes(value))
              /\ Layout(text.out, FALSE) = Layout(encode_to_bytes(value), FALSE)
              /\ \E j \in 1..(Len(text.out) - 2) : SubSeq(text.out, j, j + 2) = REPLACEMENT

\* C13 witness: a list that holds a byte string of a two-byte character and
\* the first byte of a three-byte character has been rendered with the
\* character kept and one marker.
C13_Witness ==
    /\ pc = "text"
    /\ value = List(<< ByteString(<< 195, 169, 226 >>) >>)
    /\ text = EncOk(<< CH_l, CH_0 + 3, CH_colon, 195, 169 >> \o REPLACEMENT \o << CH_e >>)

\* the BencodeValue equivalent to a host-native value: Integer of the same
\* number, ByteString of the same bytes, List of the same items in the same
\* order, Dictionary of the same pairs
RECURSIVE ValueOf(_)
ValueOf(h) ==
    CASE h.type \in IntTypes -> Integer(h.n)
      [] h.type \in BytesTypes -> ByteString(h.bytes)
      [] h.type = "Vec" -> List([j \in 1..Len(h.items) |-> ValueOf(h.items[j])])
      [] h.type = "BTreeMap" ->
             Dictionary([j \in 1..Len(h.pairs) |->
                 [key |-> h.pairs[j].key, val |-> ValueOf(h.pairs[j].val)]])
      [] h.type = "BencodeValue" -> h.value

\* C14: conversion contract.  For every host-native input whose integers
\* are in the range of isize, to_bencode returns exactly the bytes that
\* encode_to_bytes returns for the equivalent BencodeValue.
C14_ConversionContract ==
    (pc = "native" /\ \A h \in HostInts(host) : ~OutOfRange(h)) =>
        hostres = EncOk(encode_to_bytes(ValueOf(host)))

\* C14 witness: a Vec that holds a BTreeMap with two keys has been converted.
C14_Witness ==
    /\ pc = "native"
    /\ host.type = "Vec"
    /\ Len(host.items) = 1
    /\ host.items[1].type = "BTreeMap"
    /\ Len(host.items[1].pairs) = 2
    /\ hostres.ok

\* the byte segments of the values that follow the 'l' of a list, in wire
\* order, and the bytes from the first position where no value is delimited
RECURSIVE ElementSegments(_, _)
ElementSegments(in, acc) ==
    IF in = <<>> \/ in[1] = CH_e \/ ~SkipValue(in).ok THEN [segs |-> acc, rest |-> in]
    ELSE ElementSegments(SkipValue(in).rest,
             Append(acc, Take(in, Len(in) - Len(SkipValue(in).rest))))

\* the input is 'l' v1 ... vn 'e' and what follows, each vi a segment that
\* parses as one value and nothing more
WellFormedList(x) ==
    /\ StartsWith(x, << CH_l >>)
    /\ StartsWith(ElementSegments(Tail(x), <<>>).rest, << CH_e >>)
    /\ \A j \in 1..Len(ElementSegments(Tail(x), <<>>).segs) :
          /\ bencode_value(ElementSegments(Tail(x), <<>>).segs[j]).ok
          /\ bencode_value(ElementSegments(Tail(x), <<>>).segs[j]).rest = <<>>

\* the values of the segments, one for one and in the order of the segments
ParsesOf(segs) == [j \in 1..Len(segs) |-> bencode_value(segs[j]).out]

\* C15: list grammar.  On 'l' v1 ... vn 'e' with every vi a well-formed
\* value, the parse yields the list of exactly the n parses of v1..vn in
\* encounter order and leaves what follows the 'e'; "le" is the empty list;
\* the encoder writes the elements of a list in their order between 'l'
\* and 'e'.
C15_ListGrammar ==
    /\ (pc = "parsed" /\ WellFormedList(input)) =>
          /\ parsed = Ok(List(ParsesOf(ElementSegments(Tail(input), <<>>).segs)),
                         Tail(ElementSegments(Tail(input), <<>>).rest))
          /\ Len(parsed.out.items) = Len(ElementSegments(Tail(input), <<>>).segs)
    /\ (pc = "parsed" /\ input = << CH_l, CH_e >>) => parsed = Ok(List(<<>>), <<>>)
    /\ (pc = "encoded" /\ value.kind = "List") =>
          encoded = << CH_l >>
                    \o Concat([j \in 1..Len(value.items) |-> encode_to_bytes(value.items[j])])
                    \o << CH_e >>

\* C15 witness: a list of an integer, a byte string and an empty list has
\* been parsed and encoded.
C15_Witness ==
    /\ pc = "encoded"
    /\ input = << CH_l, CH_i, CH_1, CH_e, CH_2, CH_colon, CH_a, CH_b, CH_l, CH_e, CH_e >>
    /\ parsed = Ok(List(<< Integer(1), ByteString(<< CH_a, CH_b >>), List(<<>>) >>), <<>>)
    /\ encoded = input

\* the results of the four grammars on an input, each mapped into its variant
Alternatives(in) ==
    << MapInteger(integer(in)), MapByteString(byte_string(in)),
       MapList(list(in)), MapDictionary(dictionary(in)) >>

\* alt over four results in the order given
AltInOrder(rs) == alt(rs[1], alt(rs[2], alt(rs[3], rs[4])))

\* the bytes a value can start with
LeadingMarkers == { CH_i, CH_l, CH_d } \cup CH_0..CH_9

\* C16: dispatch by the leading byte.  On every input at most one of the
\* four grammars succeeds, and only the one whose marker the input starts
\* with; parse_bencode returns the same result for every order of the
\* alternatives; an empty input and an input that starts with no marker fail.
C16_DispatchByLeadingByte ==
    (pc = "parsed") =>
        LET alts == Alternatives(input)
        IN  /\ Cardinality({ j \in 1..4 : alts[j].ok }) <= 1
            /\ alts[1].ok => input[1] = CH_i
            /\ alts[2].ok => IsDigit(input[1])
            /\ alts[3].ok => input[1] = CH_l
            /\ alts[4].ok => input[1] = CH_d
            /\ \A rs \in Arrangements(alts) : AltInOrder(rs) = parsed
            /\ (input = <<>> \/ input[1] \notin LeadingMarkers)
                  => (~parsed.ok /\ value = NoValue)

\* C16 witness: a dictionary whose value is a list has been parsed, by the
\* last of the alternatives.
C16_Witness ==
    /\ pc = "parsed"
    /\ input = << CH_d, CH_0, CH_colon, CH_l, CH_e, CH_e >>
    /\ parsed.ok
    /\ Alternatives(input)[4].ok
    /\ ~Alternatives(input)[1].ok

\* the pairs that follow the 'd' of a dictionary, in wire order, each with
\* its key and the byte segment of its value, and the bytes from the first
\* position where no pair is delimited
RECURSIVE WirePairs(_, _)
WirePairs(in, acc) ==
    IF in = <<>> \/ in[1] = CH_e \/ ~byte_string(in).ok
       \/ ~SkipValue(byte_string(in).rest).ok
    THEN [pairs |-> acc, rest |-> in]
    ELSE WirePairs(SkipValue(byte_string(in).rest).rest,
             Append(acc, [key |-> byte_string(in).out,
                          seg |-> Take(byte_string(in).rest,
                                       Len(byte_string(in).rest)
                                       - Len(SkipValue(byte_string(in).rest).rest))]))

\* the input is 'd' k1 v1 ... kn vn 'e' and what follows, each ki a byte
\* string and each vi a segment that parses as one value and nothing more
WellFormedDictionary(x) ==
    /\ StartsWith(x, << CH_d >>)
    /\ StartsWith(WirePairs(Tail(x), <<>>).rest, << CH_e >>)
    /\ \A j \in 1..Len(WirePairs(Tail(x), <<>>).pairs) :
          /\ bencode_value(WirePairs(Tail(x), <<>>).pairs[j].seg).ok
          /\ bencode_value(WirePairs(Tail(x), <<>>).pairs[j].seg).rest = <<>>

\* the index of the last pair on the wire that has the key
LastOccurrence(wire, k) ==
    CHOOSE j \in 1..Len(wire) :
        wire[j].key = k /\ \A h \in (j + 1)..Len(wire) : wire[h].key # k

\* some key is on the wire more than once
HasDuplicateKey(wire) ==
    \E j, h \in 1..Len(wire) : j < h /\ wire[j].key = wire[h].key

\* C17: duplicate keys are last-write-wins.  On a dictionary whose pairs are
\* well formed, with or without a key that occurs more than once, the parse
\* succeeds, the mapping holds every key of the input exactly once, and the
\* value of a key is the parse of the value paired with the key's last
\* occurrence in the input.
C17_DuplicateKeysLastWins ==
    (pc = "parsed" /\ WellFormedDictionary(input)) =>
        LET wire == WirePairs(Tail(input), <<>>).pairs
        IN  /\ parsed.ok
            /\ parsed.out.kind = "Dictionary"
            /\ parsed.rest = Tail(WirePairs(Tail(input), <<>>).rest)
            /\ { parsed.out.pairs[j].key : j \in 1..Len(parsed.out.pairs) }
                  = { wire[j].key : j \in 1..Len(wire) }
            /\ Len(parsed.out.pairs) = Cardinality({ wire[j].key : j \in 1..Len(wire) })
            /\ \A j \in 1..Len(parsed.out.pairs) :
                  parsed.out.pairs[j].val =
                      bencode_value(wire[LastOccurrence(wire, parsed.out.pairs[j].key)].seg).out

\* C17 witness: a dictionary in which one key occurs twice, first with an
\* integer and last with a byte string, has been parsed.
C17_Witness ==
    /\ pc = "parsed"
    /\ input = << CH_d, CH_1, CH_colon, CH_b, CH_i, CH_1, CH_e,
                  CH_1, CH_colon, CH_b, CH_1, CH_colon, CH_b, CH_e >>
    /\ HasDuplicateKey(WirePairs(Tail(input), <<>>).pairs)
    /\ parsed = Ok(Dictionary(<< [key |-> << CH_b >>, val |-> ByteString(<< CH_b >>)] >>), <<>>)

\* the number a digit sequence denotes
RECURSIVE DecimalValue(_)
DecimalValue(ds) ==
    IF ds = <<>> THEN 0
    ELSE 10 * DecimalValue(Take(ds, Len(ds) - 1)) + (ds[Len(ds)] - CH_0)

\* a digit sequence an integer literal may have: no leading zero, and not
\* zero after a sign
CanonicalDigits(neg, ds) ==
    /\ ds # <<>>
    /\ \A j \in 1..Len(ds) : IsDigit(ds[j])
    /\ Len(ds) > 1 => ds[1] # CH_0
    /\ neg => ds # << CH_0 >>

\* 'i', the sign if any, the digits and 'e'
Literal(neg, ds) ==
    << CH_i >> \o (IF neg THEN << CH_minus >> ELSE <<>>) \o ds \o << CH_e >>

\* C18: integer parse overflow is a failure.  A literal whose digits denote
\* a magnitude above the largest isize fails with either sign, at top level
\* and in a list, and so does the literal of the least isize; any other
\* literal yields exactly the signed number its digits denote; no parsed
\* integer is outside -ISIZE_MAX..ISIZE_MAX.
C18_IntegerOverflowFails ==
    (pc = "parsed") =>
        /\ \A neg \in BOOLEAN, k \in 1..Len(input) :
              LET ds == SubSeq(input, IF neg THEN 3 ELSE 2, (IF neg THEN 2 ELSE 1) + k)
              IN  (/\ (IF neg THEN 2 ELSE 1) + k <= Len(input)
                   /\ CanonicalDigits(neg, ds)
                   /\ StartsWith(input, Literal(neg, ds))) =>
                      IF DecimalValue(ds) > ISIZE_MAX
                      THEN ~parsed.ok /\ value = NoValue
                      ELSE parsed = Ok(Integer(IF neg THEN 0 - DecimalValue(ds)
                                                      ELSE DecimalValue(ds)),
                                       Drop(input, Len(Literal(neg, ds))))
        /\ \A neg \in BOOLEAN, k \in 1..Len(input) :
              LET ds == SubSeq(input, IF neg THEN 4 ELSE 3, (IF neg THEN 3 ELSE 2) + k)
              IN  (/\ (IF neg THEN 3 ELSE 2) + k <= Len(input)
                   /\ CanonicalDigits(neg, ds)
                   /\ StartsWith(input, << CH_l >> \o Literal(neg, ds))
                   /\ DecimalValue(ds) > ISIZE_MAX) => (~parsed.ok /\ value = NoValue)
        /\ StartsWith(input, << CH_i >> \o FormatInt(ISIZE_MIN) \o << CH_e >>) => ~parsed.ok
        /\ (parsed.ok /\ parsed.out.kind = "Integer") =>
              (parsed.out.int >= 0 - ISIZE_MAX /\ parsed.out.int <= ISIZE_MAX)

\* C18 witness: the literal of the least isize has been handed to the parser
\* and has failed.
C18_Witness ==
    /\ pc = "parsed"
    /\ input = << CH_i >> \o FormatInt(ISIZE_MIN) \o << CH_e >>
    /\ ~parsed.ok

\* Every dictionary of the value at the start of x, at every nesting level,
\* has its keys in strictly ascending order on the wire.
RECURSIVE WireSorted(_)
WireSorted(x) ==
    IF StartsWith(x, << CH_d >>)
    THEN /\ StrictlyAscending(KeysOf(WirePairs(Tail(x), <<>>).pairs))
         /\ \A j \in 1..Len(WirePairs(Tail(x), <<>>).pairs) :
               WireSorted(WirePairs(Tail(x), <<>>).pairs[j].seg)
    ELSE IF StartsWith(x, << CH_l >>)
    THEN \A j \in 1..Len(ElementSegments(Tail(x), <<>>).segs) :
             WireSorted(ElementSegments(Tail(x), <<>>).segs[j])
    ELSE TRUE

\* C19: bytes-to-value-to-bytes fidelity.  When parse_bencode succeeds on an
\* input in which the keys of every dictionary are strictly ascending, the
\* encoding of the value is exactly the part of the input that was consumed.
C19_AcceptedInputIsCanonical ==
    (pc = "encoded" /\ parsed.ok /\ WireSorted(input)) =>
        encoded = Take(input, Len(input) - Len(parsed.rest))

\* C19 witness: a dictionary with two keys in ascending order has been
\* parsed and encoded.
C19_Witness ==
    /\ pc = "encoded"
    /\ input = << CH_d, CH_2, CH_colon, CH_a, CH_b, CH_i, CH_1, CH_e,
                  CH_1, CH_colon, CH_b, CH_i, CH_1, CH_e, CH_e >>
    /\ parsed.ok
    /\ WireSorted(input)
    /\ encoded = input

===========================================================================
